---- MODULE Spec2Model ----
(***************************************************************************)
(* The three tiling scripts of PNGtoSamples as one state machine:          *)
(*   LemonPark.py   enhance, tile (single or double blade, with a          *)
(*                  horizontal extension), then overlay a footer           *)
(*   LemonPaper.py  tile one column, one PDF per (height, label)           *)
(*   PNGPDF.py      tile one column, one PDF per height                    *)
(* The state is the working directory (disk), the position of every        *)
(* create_pdf / create_large_pdf call (pc), its locals (loc), what it      *)
(* printed (out) and the position of the __main__ loop (main_i).           *)
(*                                                                         *)
(* Units.  Vertical lengths are in points.  LemonPark.py keeps them as     *)
(* Python ints, the other two scripts as floats; here they are exact       *)
(* rationals <<n, d>> in lowest terms.  Horizontal lengths are integers    *)
(* counted in 1/10000 pt, the precision of HORIZONTAL_EXTENSION_POINTS.    *)
(***************************************************************************)
EXTENDS Integers, Sequences, FiniteSets, TLC

VARIABLES script, img, width_ft, spacing_points, footer_status, footer_page,
          disk, pc, loc, out, main_i

vars == <<script, img, width_ft, spacing_points, footer_status, footer_page,
          disk, pc, loc, out, main_i>>

inputs == <<script, img, width_ft, spacing_points, footer_status, footer_page>>

----------------------------------------------------------------------------
(* Bounds of the model *)

MaxImgWidth == 3

MaxImgHeight == 2

MaxWidthFt == 2

MaxFooterDim == 2

(* Program constants *)

XUnit == 10000

HORIZONTAL_EXTENSION_POINTS == 85039

DefaultWidthFt == 2

DefaultSpacing == 20

PixmapZoom == 3

NameXPercent == 77

NameYPercentSingle == 54

NameYPercentDouble == 53

----------------------------------------------------------------------------
(* Exact rational arithmetic standing for the scripts' float arithmetic *)

Abs(n) == IF n < 0 THEN -n ELSE n

RECURSIVE GCD(_, _)
GCD(a, b) == IF b = 0 THEN a ELSE GCD(b, a % b)

Rat(n, d) ==
    LET g == GCD(Abs(n), Abs(d))
    IN  IF n = 0 THEN <<0, 1>> ELSE <<n \div g, d \div g>>

RatInt(n) == <<n, 1>>

RatMul(a, b) ==
    LET x == Rat(a[1], b[2])
        y == Rat(b[1], a[2])
    IN  Rat(x[1] * y[1], x[2] * y[2])

RatSub(a, b) ==
    LET g == GCD(a[2], b[2])
    IN  Rat(a[1] * (b[2] \div g) - b[1] * (a[2] \div g), a[2] * (b[2] \div g))

\* int(x) of a non-negative float
RatFloor(a) == a[1] \div a[2]

----------------------------------------------------------------------------
(* Feet to points *)

FeetToPoints(feet) == feet * 12 * 72

\* a horizontal length given in points, counted in 1/10000 pt
X(points) == points * XUnit

----------------------------------------------------------------------------
(* The three scripts' __main__ loops *)

Labels == <<"P&S", "TRAD">>

Heights == <<13, 27>>

Variant(h, l, db) == [height_ft |-> h, label |-> l, double_blade |-> db]

LemonParkCalls ==
    [i \in 1..8 |->
        Variant(Heights[(((i - 1) \div 2) % 2) + 1],
                Labels[((i - 1) \div 4) + 1],
                (i - 1) % 2 = 1)]

LemonPaperCalls ==
    [i \in 1..4 |->
        Variant(Heights[((i - 1) \div 2) + 1], Labels[((i - 1) % 2) + 1], FALSE)]

PNGPDFCalls == [i \in 1..2 |-> Variant(Heights[i], "", FALSE)]

MainCalls(s) ==
    CASE s = "LemonPark"  -> LemonParkCalls
      [] s = "LemonPaper" -> LemonPaperCalls
      [] s = "PNGPDF"     -> PNGPDFCalls

Variants(s) == {MainCalls(s)[i] : i \in DOMAIN MainCalls(s)}

FooterKey(v) == <<v.height_ft, v.label>>

FooterKeys == {<<13, "TRAD">>, <<27, "TRAD">>, <<13, "P&S">>, <<27, "P&S">>}

----------------------------------------------------------------------------
(* File names.  An f-string is the tuple of its pieces. *)

Digit == <<"1", "2", "3", "4", "5", "6", "7", "8", "9">>

RECURSIVE FormatInt(_)
FormatInt(n) ==
    IF n < 10
    THEN <<IF n = 0 THEN "0" ELSE Digit[n]>>
    ELSE FormatInt(n \div 10) \o <<IF n % 10 = 0 THEN "0" ELSE Digit[n % 10]>>

ImageBaseName == "design"

ImageExt == ".png"

\* os.path.basename(image_path)
Basename == <<ImageBaseName, ImageExt>>

EnhancedPath == <<"temp_enhanced_">> \o Basename

ResizedPath == <<"temp_resized_">> \o Basename

\* faulty variant: the _DoubleBlade suffix is forgotten
OutputPdfDropSuffix(v) ==
    <<"temp_">> \o FormatInt(v.height_ft) \o <<"ft_", v.label, ".pdf">>

OutputPdf(v) ==
    IF v.double_blade
    THEN <<"temp_">> \o FormatInt(v.height_ft) \o <<"ft_", v.label, "_DoubleBlade.pdf">>
    ELSE <<"temp_">> \o FormatInt(v.height_ft) \o <<"ft_", v.label, ".pdf">>

FooterImagePath(v) ==
    <<"footer_">> \o FormatInt(v.height_ft) \o <<"_", v.label, ".png">>

\* faulty variant: the temp_ prefix is not removed
FinalPdfPathKeepsPrefix(base_pdf_path) == base_pdf_path

\* base_pdf_path.replace("temp_", "")
FinalPdfPath(base_pdf_path) == SelectSeq(base_pdf_path, LAMBDA piece : piece # "temp_")

LargeOutputPdf(v) ==
    IF script = "PNGPDF"
    THEN <<ImageBaseName, "_">> \o FormatInt(v.height_ft) \o <<"ft.pdf">>
    ELSE <<ImageBaseName, "_">> \o FormatInt(v.height_ft) \o <<"ft_", v.label, ".pdf">>

LargeTempImagePath ==
    IF script = "PNGPDF" THEN <<ImageBaseName, "_temp.jpg">>
                         ELSE <<ImageBaseName, "_temp.png">>

----------------------------------------------------------------------------
(* The working directory *)

Exists(f) == f \in DOMAIN disk

\* faulty variant: the file is not removed
RemoveFileKeeps(d, f) == d

WriteFile(d, f, c) == [x \in DOMAIN d \cup {f} |-> IF x = f THEN c ELSE d[x]]

RemoveFile(d, f) == [x \in DOMAIN d \ {f} |-> d[x]]

EmptyDisk == [x \in {} |-> x]

ImageFile(w, h) == [kind |-> "image", size |-> <<w, h>>]

PdfFile(page) == [kind |-> "pdf", page |-> page]

NoPage ==
    [width |-> 0, height |-> 0, tiles |-> {}, tile_width |-> 0,
     tile_height |-> <<0, 1>>, footers |-> {}, texts |-> {}]

NoLocals == [new_height |-> <<0, 1>>, tile_count |-> 0, pix |-> <<0, 0>>, doc |-> NoPage]

----------------------------------------------------------------------------
(* Inputs *)

Scripts == {"LemonPark", "LemonPaper", "PNGPDF"}

\* a strip so wide that its scaled height truncates to 0 at every tile width
WideStrip == FeetToPoints(MaxWidthFt) * MaxImgHeight + 1

Images ==
    {[ok |-> TRUE, width |-> w, height |-> h] :
        w \in (1..MaxImgWidth) \cup {WideStrip}, h \in 1..MaxImgHeight}
    \cup {[ok |-> FALSE, width |-> 1, height |-> 1]}

SpacingChoices == {0, DefaultSpacing}

AllFootersOk == [k \in FooterKeys |-> "ok"]

\* every footer asset present and readable, or one of them missing or unreadable
FooterStatuses ==
    {AllFootersOk}
    \cup {[AllFootersOk EXCEPT ![k] = s] : k \in FooterKeys, s \in {"missing", "corrupt"}}

FooterPages == (1..MaxFooterDim) \X (1..MaxFooterDim)

\* LemonPark.py: the geometry parameters vary while every footer asset is
\* usable, and the footer assets vary under the parameters __main__ passes
InitInputs ==
    /\ script \in Scripts
    /\ img \in Images
    /\ IF script = "LemonPark"
       THEN \/ /\ width_ft \in 1..MaxWidthFt
               /\ spacing_points \in SpacingChoices
               /\ footer_status = AllFootersOk
               /\ footer_page \in FooterPages
            \/ /\ width_ft = DefaultWidthFt
               /\ spacing_points = DefaultSpacing
               /\ footer_status \in FooterStatuses
               /\ footer_page = <<1, 1>>
       ELSE /\ width_ft = DefaultWidthFt
            /\ spacing_points = DefaultSpacing
            /\ footer_status = AllFootersOk
            /\ footer_page = <<1, 1>>

Init ==
    /\ InitInputs
    /\ disk = EmptyDisk
    /\ pc = [v \in Variants(script) |-> "idle"]
    /\ loc = [v \in Variants(script) |-> NoLocals]
    /\ out = [v \in Variants(script) |-> {}]
    /\ main_i = 1

----------------------------------------------------------------------------
(* Control flow shared by the actions *)

Goto(v, p) == pc' = [pc EXCEPT ![v] = p]

Say(v, m) == out' = [out EXCEPT ![v] = @ \cup {m}]

\* create_pdf's handler: print "Error: ..." and return
CreatePdfExcept(v, e) == Goto(v, "returned") /\ Say(v, e)

\* overlay_footer's handler: print "Error overlaying footer: ..." and return to
\* create_pdf, which goes on to remove the enhanced and the resized image
OverlayExcept(v, e) == Goto(v, "cleanup") /\ Say(v, e)

\* create_large_pdf has no handler: the exception ends the script
Uncaught(v, e) == Goto(v, "crashed") /\ Say(v, e)

----------------------------------------------------------------------------
(* Geometry *)

TileWidthPoints == FeetToPoints(width_ft)

TotalHeightPoints(v) == FeetToPoints(v.height_ft)

ExtendedTileWidth == X(TileWidthPoints) + 2 * HORIZONTAL_EXTENSION_POINTS

\* faulty variant: the page is not widened by the extension
TotalWidthPointsNoExtension(v) ==
    IF v.double_blade THEN 2 * X(TileWidthPoints) + X(spacing_points)
                      ELSE X(TileWidthPoints)

TotalWidthPoints(v) ==
    IF v.double_blade THEN 2 * ExtendedTileWidth + X(spacing_points)
                      ELSE ExtendedTileWidth

ScaleFactor(img_width) == Rat(TileWidthPoints, img_width)

\* LemonPark.py: int(img_height * scale_factor)
NewHeight(img_width, img_height) ==
    RatFloor(RatMul(RatInt(img_height), ScaleFactor(img_width)))

\* LemonPaper.py, PNGPDF.py: img_height * scale_factor, a float
LargeNewHeight(img_width, img_height) ==
    RatMul(RatInt(img_height), ScaleFactor(img_width))

\* faulty variant: a resize that accepts an empty size
ResizeAcceptsAnySize(w, h) == TRUE

\* Image.resize raises ValueError ("height and width must be > 0") otherwise
ResizeAccepts(w, h) == w >= 1 /\ h >= 1

\* faulty variant: the + 1 is forgotten
TileCountFloor(total_height_points, new_height) ==
    total_height_points \div new_height

\* faulty variant: one tile too many
TileCountPlusTwo(total_height_points, new_height) ==
    (total_height_points \div new_height) + 2

\* (total_height_points // new_height) + 1
TileCount(total_height_points, new_height) ==
    (total_height_points \div new_height) + 1

\* int(total_height_points / new_height) + 1
LargeTileCount(total_height_points, new_height) ==
    RatFloor(Rat(total_height_points * new_height[2], new_height[1])) + 1

\* the y_position of each pass of the drawing loop
TileYPositions(tile_count, new_height) ==
    {RatMul(RatInt(k), new_height) : k \in 0..(tile_count - 1)}

SecondImageX == ExtendedTileWidth + X(spacing_points) + HORIZONTAL_EXTENSION_POINTS

TileXOffsets(v) ==
    IF v.double_blade THEN {HORIZONTAL_EXTENSION_POINTS, SecondImageX}
                      ELSE {HORIZONTAL_EXTENSION_POINTS}

----------------------------------------------------------------------------
(* LemonPark.py: create_pdf *)

\* enhance_image: open the image, write temp_enhanced_<basename>
Enhance(v) ==
    /\ script = "LemonPark"
    /\ pc[v] = "start"
    /\ IF ~img.ok
       THEN /\ CreatePdfExcept(v, "Error: cannot identify image file")
            /\ UNCHANGED <<disk, loc>>
       ELSE /\ disk' = WriteFile(disk, EnhancedPath, ImageFile(img.width, img.height))
            /\ Goto(v, "enhanced")
            /\ UNCHANGED <<loc, out>>
    /\ UNCHANGED <<inputs, main_i>>

\* open the enhanced image, scale it to the tile width, write temp_resized_<basename>
Resize(v) ==
    /\ script = "LemonPark"
    /\ pc[v] = "enhanced"
    /\ IF ~Exists(EnhancedPath)
       THEN /\ CreatePdfExcept(v, "Error: No such file")
            /\ UNCHANGED <<disk, loc>>
       ELSE LET size == disk[EnhancedPath].size
                new_width == TileWidthPoints
                new_height == NewHeight(size[1], size[2])
            IN  /\ loc' = [loc EXCEPT ![v].new_height = RatInt(new_height)]
                /\ IF ~ResizeAccepts(new_width, new_height)
                   THEN /\ CreatePdfExcept(v, "Error: height and width must be > 0")
                        /\ UNCHANGED disk
                   ELSE /\ disk' = WriteFile(disk, ResizedPath,
                                             ImageFile(new_width, new_height))
                        /\ Goto(v, "resized")
                        /\ UNCHANGED out
    /\ UNCHANGED <<inputs, main_i>>

\* tile_count = (total_height_points // new_height) + 1
CountTiles(v) ==
    /\ script = "LemonPark"
    /\ pc[v] = "resized"
    /\ IF loc[v].new_height[1] = 0
       THEN /\ CreatePdfExcept(v, "Error: integer division or modulo by zero")
            /\ UNCHANGED loc
       ELSE /\ loc' = [loc EXCEPT ![v].tile_count =
                          TileCount(TotalHeightPoints(v), loc[v].new_height[1])]
            /\ Goto(v, "counted")
            /\ UNCHANGED out
    /\ UNCHANGED <<inputs, disk, main_i>>

ComposedPage(v) ==
    [width       |-> TotalWidthPoints(v),
     height      |-> TotalHeightPoints(v),
     tiles       |-> TileXOffsets(v) \X
                     TileYPositions(loc[v].tile_count, loc[v].new_height),
     tile_width  |-> X(TileWidthPoints),
     tile_height |-> loc[v].new_height,
     footers     |-> {},
     texts       |-> {}]

\* the canvas, the drawing loop, showPage and save: writes the temp_ PDF
Compose(v) ==
    /\ script = "LemonPark"
    /\ pc[v] = "counted"
    /\ IF ~Exists(ResizedPath)
       THEN /\ CreatePdfExcept(v, "Error: No such file")
            /\ UNCHANGED disk
       ELSE /\ disk' = WriteFile(disk, OutputPdf(v), PdfFile(ComposedPage(v)))
            /\ Goto(v, "composed")
            /\ Say(v, "Temporary PDF saved")
    /\ UNCHANGED <<inputs, loc, main_i>>

----------------------------------------------------------------------------
(* LemonPark.py: overlay_footer, called by create_pdf *)

\* faulty variant: the lookup is not checked
FooterAlwaysFound(v) == TRUE

FooterFound(v) ==
    /\ FooterKey(v) \in FooterKeys
    /\ footer_status[FooterKey(v)] # "missing"

\* footer_files.get(...), os.path.exists(...)
LookupFooter(v) ==
    /\ script = "LemonPark"
    /\ pc[v] = "composed"
    /\ IF FooterFound(v)
       THEN Goto(v, "footer_found") /\ UNCHANGED out
       ELSE Goto(v, "cleanup") /\ Say(v, "Error: Footer file not found")
    /\ UNCHANGED <<inputs, disk, loc, main_i>>

\* fitz.open of both PDFs, get_pixmap(Matrix(3, 3)), save footer_<h>_<label>.png
Rasterize(v) ==
    /\ script = "LemonPark"
    /\ pc[v] = "footer_found"
    /\ IF ~Exists(OutputPdf(v)) \/ footer_status[FooterKey(v)] # "ok"
       THEN /\ OverlayExcept(v, "Error overlaying footer")
            /\ UNCHANGED <<disk, loc>>
       ELSE LET pix == <<PixmapZoom * footer_page[1], PixmapZoom * footer_page[2]>>
            IN  /\ loc' = [loc EXCEPT ![v].pix = pix,
                                      ![v].doc = disk[OutputPdf(v)].page]
                /\ disk' = WriteFile(disk, FooterImagePath(v), ImageFile(pix[1], pix[2]))
                /\ Goto(v, "rasterized")
                /\ UNCHANGED out
    /\ UNCHANGED <<inputs, main_i>>

RecoveredExtendedTileWidth(v, base_width) ==
    IF v.double_blade THEN (base_width - X(spacing_points)) \div 2 ELSE base_width

OriginalTileWidth(v, base_width) ==
    RecoveredExtendedTileWidth(v, base_width) - 2 * HORIZONTAL_EXTENSION_POINTS

\* footer_pixmap.height * (original_tile_width / footer_pixmap.width), in points
FooterHeight(pix, original_tile_width) ==
    RatMul(RatInt(pix[2]), Rat(original_tile_width, pix[1] * XUnit))

\* faulty variant: the right footer ignores the spacing
FooterXOffsetsNoSpacing(v, base_width) ==
    IF v.double_blade
    THEN {HORIZONTAL_EXTENSION_POINTS,
          RecoveredExtendedTileWidth(v, base_width) + HORIZONTAL_EXTENSION_POINTS}
    ELSE {HORIZONTAL_EXTENSION_POINTS}

FooterXOffsets(v, base_width) ==
    IF v.double_blade
    THEN {HORIZONTAL_EXTENSION_POINTS,
          RecoveredExtendedTileWidth(v, base_width) + X(spacing_points)
              + HORIZONTAL_EXTENSION_POINTS}
    ELSE {HORIZONTAL_EXTENSION_POINTS}

FooterRect(x_offset, original_tile_width, page_height, footer_height) ==
    [x0 |-> x_offset,
     y0 |-> RatSub(RatInt(page_height), footer_height),
     x1 |-> x_offset + original_tile_width,
     y1 |-> RatInt(page_height)]

\* faulty variant: one factor for both layouts
NameYPercentAlwaysSingle(v) == NameYPercentSingle

NameYPercent(v) ==
    IF v.double_blade THEN NameYPercentDouble ELSE NameYPercentSingle

TextPosition(v, x_offset, original_tile_width, page_height, footer_height) ==
    [x |-> x_offset + (original_tile_width * NameXPercent) \div 100,
     y |-> RatSub(RatInt(page_height),
                  RatMul(footer_height, Rat(NameYPercent(v), 100)))]

StampedPage(v) ==
    LET page == loc[v].doc
        otw  == OriginalTileWidth(v, page.width)
        fh   == FooterHeight(loc[v].pix, otw)
        xs   == FooterXOffsets(v, page.width)
    IN  [page EXCEPT
            !.footers = {FooterRect(x, otw, page.height, fh) : x \in xs},
            !.texts   = {TextPosition(v, x, otw, page.height, fh) : x \in xs}]

\* the loop over the pages: insert_image of the footer bitmap, add_text_to_page
Stamp(v) ==
    /\ script = "LemonPark"
    /\ pc[v] = "rasterized"
    /\ IF ~Exists(FooterImagePath(v))
       THEN /\ OverlayExcept(v, "Error overlaying footer")
            /\ UNCHANGED loc
       ELSE /\ loc' = [loc EXCEPT ![v].doc = StampedPage(v)]
            /\ Goto(v, "stamped")
            /\ UNCHANGED out
    /\ UNCHANGED <<inputs, disk, main_i>>

\* base_pdf.save(final_pdf_path)
SaveFinal(v) ==
    /\ script = "LemonPark"
    /\ pc[v] = "stamped"
    /\ disk' = WriteFile(disk, FinalPdfPath(OutputPdf(v)), PdfFile(loc[v].doc))
    /\ Goto(v, "saved")
    /\ UNCHANGED <<inputs, loc, out, main_i>>

\* os.remove(footer_image_path), then the "Final PDF ..." message
RemoveFooterImage(v) ==
    /\ script = "LemonPark"
    /\ pc[v] = "saved"
    /\ IF ~Exists(FooterImagePath(v))
       THEN /\ OverlayExcept(v, "Error overlaying footer")
            /\ UNCHANGED disk
       ELSE /\ disk' = RemoveFile(disk, FooterImagePath(v))
            /\ Goto(v, "footer_removed")
            /\ Say(v, "Final PDF with footer saved")
    /\ UNCHANGED <<inputs, loc, main_i>>

\* os.remove(base_pdf_path)
RemoveTempPdf(v) ==
    /\ script = "LemonPark"
    /\ pc[v] = "footer_removed"
    /\ IF ~Exists(OutputPdf(v))
       THEN /\ OverlayExcept(v, "Error overlaying footer")
            /\ UNCHANGED disk
       ELSE /\ disk' = RemoveFile(disk, OutputPdf(v))
            /\ Goto(v, "cleanup")
            /\ UNCHANGED out
    /\ UNCHANGED <<inputs, loc, main_i>>

----------------------------------------------------------------------------
(* LemonPark.py: create_pdf after overlay_footer has returned *)

\* os.remove(enhanced_image_path)
RemoveEnhanced(v) ==
    /\ script = "LemonPark"
    /\ pc[v] = "cleanup"
    /\ IF ~Exists(EnhancedPath)
       THEN /\ CreatePdfExcept(v, "Error: No such file")
            /\ UNCHANGED disk
       ELSE /\ disk' = RemoveFile(disk, EnhancedPath)
            /\ Goto(v, "cleanup2")
            /\ UNCHANGED out
    /\ UNCHANGED <<inputs, loc, main_i>>

\* os.remove(temp_resized)
RemoveResized(v) ==
    /\ script = "LemonPark"
    /\ pc[v] = "cleanup2"
    /\ IF ~Exists(ResizedPath)
       THEN /\ CreatePdfExcept(v, "Error: No such file")
            /\ UNCHANGED disk
       ELSE /\ disk' = RemoveFile(disk, ResizedPath)
            /\ Goto(v, "returned")
            /\ UNCHANGED out
    /\ UNCHANGED <<inputs, loc, main_i>>

----------------------------------------------------------------------------
(* LemonPaper.py and PNGPDF.py: create_large_pdf *)

IsLarge == script \in {"LemonPaper", "PNGPDF"}

\* Image.open, the scale factor, img.resize((int(new_width), int(new_height)))
LargeOpenResize(v) ==
    /\ IsLarge
    /\ pc[v] = "start"
    /\ IF ~img.ok
       THEN /\ Uncaught(v, "UnidentifiedImageError")
            /\ UNCHANGED loc
       ELSE LET new_width == TileWidthPoints
                new_height == LargeNewHeight(img.width, img.height)
            IN  /\ loc' = [loc EXCEPT ![v].new_height = new_height]
                /\ IF ~ResizeAccepts(new_width, RatFloor(new_height))
                   THEN Uncaught(v, "ValueError: height and width must be > 0")
                   ELSE Goto(v, "l_resized") /\ UNCHANGED out
    /\ UNCHANGED <<inputs, disk, main_i>>

\* tile_count = int(total_height_points / new_height) + 1
LargeCountTiles(v) ==
    /\ IsLarge
    /\ pc[v] = "l_resized"
    /\ loc' = [loc EXCEPT ![v].tile_count =
                  LargeTileCount(TotalHeightPoints(v), loc[v].new_height)]
    /\ Goto(v, "l_counted")
    /\ UNCHANGED <<inputs, disk, out, main_i>>

\* the canvas is created, then img.save(temp_image_path)
LargeSaveTemp(v) ==
    /\ IsLarge
    /\ pc[v] = "l_counted"
    /\ disk' = WriteFile(disk, LargeTempImagePath,
                         ImageFile(TileWidthPoints, RatFloor(loc[v].new_height)))
    /\ Goto(v, "l_temp")
    /\ UNCHANGED <<inputs, loc, out, main_i>>

LargePage(v) ==
    [width       |-> X(TileWidthPoints),
     height      |-> TotalHeightPoints(v),
     tiles       |-> {0} \X TileYPositions(loc[v].tile_count, loc[v].new_height),
     tile_width  |-> X(TileWidthPoints),
     tile_height |-> loc[v].new_height,
     footers     |-> {},
     texts       |-> {}]

\* the drawing loop, showPage and save: writes the output PDF
LargeDraw(v) ==
    /\ IsLarge
    /\ pc[v] = "l_temp"
    /\ IF ~Exists(LargeTempImagePath)
       THEN Uncaught(v, "OSError: cannot open resource") /\ UNCHANGED disk
       ELSE /\ disk' = WriteFile(disk, LargeOutputPdf(v), PdfFile(LargePage(v)))
            /\ Goto(v, "l_saved")
            /\ UNCHANGED out
    /\ UNCHANGED <<inputs, loc, main_i>>

\* os.remove(temp_image_path), then the "PDF saved ..." message
LargeRemoveTemp(v) ==
    /\ IsLarge
    /\ pc[v] = "l_saved"
    /\ IF ~Exists(LargeTempImagePath)
       THEN Uncaught(v, "FileNotFoundError") /\ UNCHANGED disk
       ELSE /\ disk' = RemoveFile(disk, LargeTempImagePath)
            /\ Goto(v, "returned")
            /\ Say(v, "PDF saved")
    /\ UNCHANGED <<inputs, loc, main_i>>

----------------------------------------------------------------------------
(* __main__: one call after the other, each started when the one before it
   has returned; an uncaught exception ends the script *)

Idle(v) == pc[v] \in {"idle", "returned"}

MainCall ==
    /\ main_i \in DOMAIN MainCalls(script)
    /\ \A v \in DOMAIN pc : Idle(v)
    /\ pc' = [pc EXCEPT ![MainCalls(script)[main_i]] = "start"]
    /\ main_i' = main_i + 1
    /\ UNCHANGED <<inputs, disk, loc, out>>

Next ==
    \/ MainCall
    \/ \E v \in DOMAIN pc : Enhance(v)
    \/ \E v \in DOMAIN pc : Resize(v)
    \/ \E v \in DOMAIN pc : CountTiles(v)
    \/ \E v \in DOMAIN pc : Compose(v)
    \/ \E v \in DOMAIN pc : LookupFooter(v)
    \/ \E v \in DOMAIN pc : Rasterize(v)
    \/ \E v \in DOMAIN pc : Stamp(v)
    \/ \E v \in DOMAIN pc : SaveFinal(v)
    \/ \E v \in DOMAIN pc : RemoveFooterImage(v)
    \/ \E v \in DOMAIN pc : RemoveTempPdf(v)
    \/ \E v \in DOMAIN pc : RemoveEnhanced(v)
    \/ \E v \in DOMAIN pc : RemoveResized(v)
    \/ \E v \in DOMAIN pc : LargeOpenResize(v)
    \/ \E v \in DOMAIN pc : LargeCountTiles(v)
    \/ \E v \in DOMAIN pc : LargeSaveTemp(v)
    \/ \E v \in DOMAIN pc : LargeDraw(v)
    \/ \E v \in DOMAIN pc : LargeRemoveTemp(v)

Spec == Init /\ [][Next]_vars

----------------------------------------------------------------------------
(* Two create_pdf calls of LemonPark.py on the same image, their steps
   interleaved: the parallel execution the specification says nothing
   prevents.  The calls take the defaults of __main__. *)

InitPar ==
    /\ script = "LemonPark"
    /\ img \in Images
    /\ width_ft = DefaultWidthFt
    /\ spacing_points = DefaultSpacing
    /\ footer_status = AllFootersOk
    /\ footer_page = <<1, 1>>
    /\ disk = EmptyDisk
    /\ \E a, b \in Variants("LemonPark") :
          /\ a # b
          /\ pc = [v \in Variants("LemonPark") |->
                      IF v \in {a, b} THEN "start" ELSE "idle"]
    /\ loc = [v \in Variants("LemonPark") |-> NoLocals]
    /\ out = [v \in Variants("LemonPark") |-> {}]
    /\ main_i = Len(LemonParkCalls) + 1

NextPar ==
    \/ \E v \in DOMAIN pc : Enhance(v)
    \/ \E v \in DOMAIN pc : Resize(v)
    \/ \E v \in DOMAIN pc : CountTiles(v)
    \/ \E v \in DOMAIN pc : Compose(v)
    \/ \E v \in DOMAIN pc : LookupFooter(v)
    \/ \E v \in DOMAIN pc : Rasterize(v)
    \/ \E v \in DOMAIN pc : Stamp(v)
    \/ \E v \in DOMAIN pc : SaveFinal(v)
    \/ \E v \in DOMAIN pc : RemoveFooterImage(v)
    \/ \E v \in DOMAIN pc : RemoveTempPdf(v)
    \/ \E v \in DOMAIN pc : RemoveEnhanced(v)
    \/ \E v \in DOMAIN pc : RemoveResized(v)

SpecPar == InitPar /\ [][NextPar]_vars

----------------------------------------------------------------------------
(* Vocabulary of the properties *)

RatAdd(a, b) == RatSub(a, <<-b[1], b[2]>>)

RatLess(a, b) == RatSub(a, b)[1] < 0

RatLeq(a, b) == RatSub(a, b)[1] <= 0

ProgressMessages ==
    {"Temporary PDF saved", "Final PDF with footer saved", "PDF saved"}

\* the call printed an error
Failed(v) == out[v] \ ProgressMessages # {}

\* compose and footer overlay both ran to completion
Succeeded(v) == "Final PDF with footer saved" \in out[v] /\ ~Failed(v)

RunFinished ==
    /\ main_i > Len(MainCalls(script))
    /\ \A v \in DOMAIN pc : pc[v] = "returned"

\* the names the output files are documented to have
FinalName(v) ==
    FormatInt(v.height_ft)
        \o <<"ft_", v.label, IF v.double_blade THEN "_DoubleBlade.pdf" ELSE ".pdf">>

TempName(v) == <<"temp_">> \o FinalName(v)

\* the scaled tile height truncates to 0
TruncatedHeightIsZero ==
    img.ok /\ (img.height * FeetToPoints(width_ft)) \div img.width = 0

Pdfs == {f \in DOMAIN disk : disk[f].kind = "pdf"}

\* the PDFs the calls have just written
FreshPages ==
    {disk[TempName(v)].page : v \in {u \in DOMAIN pc : pc[u] = "composed"}}
    \cup {disk[LargeOutputPdf(v)].page : v \in {u \in DOMAIN pc : pc[u] = "l_saved"}}

Columns(v) == IF v.double_blade THEN 2 ELSE 1

----------------------------------------------------------------------------
\* each column starts at y = 0 and continues, tile upon tile, to the top
PageCovered(p) ==
    /\ p.tiles # {}
    /\ \A t \in p.tiles :
          /\ <<t[1], <<0, 1>>>> \in p.tiles
          /\ \/ RatLeq(RatInt(p.height), RatAdd(t[2], p.tile_height))
             \/ <<t[1], RatAdd(t[2], p.tile_height)>> \in p.tiles

(* C1: coverage.  In every script, once the tile count is computed,
   tile_count * tile_height >= total_height_points, and in every PDF a call
   writes each column's tiles start at y = 0 and follow one another without
   a gap up to or beyond the top of the page. *)
C1_Coverage ==
    /\ \A v \in DOMAIN pc :
          pc[v] \in {"counted", "l_counted"}
          => RatLeq(RatInt(FeetToPoints(v.height_ft)),
                    RatMul(RatInt(loc[v].tile_count), loc[v].new_height))
    /\ \A p \in FreshPages : PageCovered(p)

C1_Witness ==
    \E v \in DOMAIN pc :
        /\ pc[v] \in {"composed", "l_saved"}
        /\ Pdfs # {}
        /\ RatLess(RatInt(FeetToPoints(v.height_ft)),
                   RatMul(RatInt(loc[v].tile_count), loc[v].new_height))

(* C2 as stated: (tile_count - 1) * tile_height < total_height_points, every
   tile starts strictly below the top of the page. *)
C2_Original ==
    /\ \A v \in DOMAIN pc :
          loc[v].tile_count > 0
          => RatLess(RatMul(RatInt(loc[v].tile_count - 1), loc[v].new_height),
                     RatInt(FeetToPoints(v.height_ft)))
    /\ \A p \in FreshPages : \A t \in p.tiles : RatLess(t[2], RatInt(p.height))

(* C2 amended: (tile_count - 1) * tile_height <= total_height_points, every
   tile starts at or below the top of the page; a tile starts exactly at the
   top when the tile height divides the total height. *)
C2_AtMostOneWastedTile ==
    /\ \A v \in DOMAIN pc :
          loc[v].tile_count > 0
          => RatLeq(RatMul(RatInt(loc[v].tile_count - 1), loc[v].new_height),
                    RatInt(FeetToPoints(v.height_ft)))
    /\ \A p \in FreshPages : \A t \in p.tiles : RatLeq(t[2], RatInt(p.height))

C2_Witness ==
    \E v \in DOMAIN pc :
        /\ pc[v] = "composed"
        /\ RatMul(RatInt(loc[v].tile_count - 1), loc[v].new_height)
               = RatInt(FeetToPoints(v.height_ft))
        /\ \E t \in disk[TempName(v)].page.tiles :
               t[2] = RatInt(FeetToPoints(v.height_ft))

(* C3 as stated: the page is one tile width wide (single blade), or two tile
   widths plus the spacing (double blade), in every script. *)
C3_Original ==
    \A v \in DOMAIN pc :
        /\ script = "LemonPark" /\ Exists(TempName(v))
           => disk[TempName(v)].page.width =
                  Columns(v) * X(width_ft * 12 * 72)
                      + (Columns(v) - 1) * X(spacing_points)
        /\ IsLarge /\ Exists(LargeOutputPdf(v))
           => disk[LargeOutputPdf(v)].page.width = X(width_ft * 12 * 72)

(* C3 amended: in LemonPark.py every tile column is widened by the horizontal
   extension on both sides: the page is tileWidth + 2*extension wide (single
   blade) or 2*(tileWidth + 2*extension) + spacing (double blade); in
   LemonPaper.py and PNGPDF.py it is tileWidth.  For every image size. *)
C3_PageWidth ==
    \A v \in DOMAIN pc :
        /\ script = "LemonPark" /\ Exists(TempName(v))
           => disk[TempName(v)].page.width =
                  Columns(v) * (X(width_ft * 12 * 72) + 2 * HORIZONTAL_EXTENSION_POINTS)
                      + (Columns(v) - 1) * X(spacing_points)
        /\ IsLarge /\ Exists(LargeOutputPdf(v))
           => disk[LargeOutputPdf(v)].page.width = X(width_ft * 12 * 72)

C3_Witness ==
    \E v \in DOMAIN pc :
        /\ v.double_blade
        /\ pc[v] = "composed"
        /\ Exists(TempName(v))
        /\ img.width # img.height

(* C4: error isolation.  In a run of LemonPark.py whose image is usable, a
   call whose footer asset is missing reports it and leaves no final PDF;
   every call whose asset is there leaves its final PDF; and the run goes on
   until every call has returned. *)
C4_ErrorIsolation ==
    script = "LemonPark" /\ img.ok /\ ~TruncatedHeightIsZero
    => /\ \A v \in DOMAIN pc :
             pc[v] = "returned"
             => IF footer_status[FooterKey(v)] = "missing"
                THEN /\ ~Exists(FinalName(v))
                     /\ "Error: Footer file not found" \in out[v]
                ELSE footer_status[FooterKey(v)] = "ok"
                     => Exists(FinalName(v)) /\ ~Failed(v)
       /\ ~RunFinished
          => \/ main_i \in DOMAIN MainCalls(script) /\ \A v \in DOMAIN pc : Idle(v)
             \/ \E v \in DOMAIN pc : pc[v] \notin {"idle", "returned", "crashed"}

C4_Witness ==
    /\ RunFinished
    /\ script = "LemonPark"
    /\ footer_status[<<27, "P&S">>] = "missing"
    /\ Exists(FinalName(Variant(13, "P&S", FALSE)))
    /\ Exists(FinalName(Variant(27, "TRAD", TRUE)))
    /\ ~Exists(FinalName(Variant(27, "P&S", FALSE)))
    /\ ~Exists(FinalName(Variant(27, "P&S", TRUE)))

(* C5: cleanup.  When a call of create_pdf has returned with both stages
   complete, its final PDF is on disk and its enhanced image, resized image,
   footer bitmap and temp_ PDF are not; after a run in which all 8 calls
   completed the directory holds the 8 final PDFs and nothing else. *)
C5_Cleanup ==
    script = "LemonPark"
    => /\ \A v \in DOMAIN pc :
             Succeeded(v) /\ (\A u \in DOMAIN pc : Idle(u))
             => /\ Exists(FinalName(v))
                /\ {EnhancedPath, ResizedPath, FooterImagePath(v), TempName(v)}
                       \cap DOMAIN disk = {}
       /\ RunFinished /\ (\A v \in DOMAIN pc : Succeeded(v))
          => /\ DOMAIN disk = {FinalName(v) : v \in DOMAIN pc}
             /\ Cardinality(DOMAIN disk) = 8

C5_Witness ==
    /\ script = "LemonPark"
    /\ RunFinished
    /\ \A v \in DOMAIN pc : Succeeded(v)
    /\ Cardinality(DOMAIN disk) = 8

(* C6 as stated: two calls on the same image share no file, so whatever the
   interleaving, once both have returned the outcome is that of the
   sequential run: each has its final PDF, neither printed an error, and no
   temporary file is left. *)
C6_Original ==
    img.ok /\ ~TruncatedHeightIsZero /\ (\A v \in DOMAIN pc : Idle(v))
    => \A v \in DOMAIN pc :
           pc[v] = "returned"
           => /\ Exists(FinalName(v))
              /\ ~Failed(v)
              /\ DOMAIN disk \subseteq {FinalName(u) : u \in DOMAIN pc}

\* the call has passed base_pdf.save(final_pdf_path)
SavedFinal(v) ==
    \/ pc[v] \in {"saved", "footer_removed"}
    \/ pc[v] \in {"cleanup", "cleanup2", "returned"} /\ loc[v].doc.footers # {}

(* C6 amended: only the temp_ PDF and the final PDF are named from the call's
   own (height, label, blade mode).  Under every interleaving of two calls
   the temp_ PDF a call composed stays on disk, with the page that call
   composed, until the call itself removes it, and the final PDF it saved
   stays as saved.  (The enhanced and the resized image are named from the
   image alone and the footer bitmap from height and label alone, so a call
   can lose them to the other and fail.) *)
C6_OwnPdfsOnly ==
    \A v \in DOMAIN pc :
        /\ \A u \in DOMAIN pc :
              u # v => OutputPdf(u) # OutputPdf(v)
                       /\ FinalPdfPath(OutputPdf(u)) # FinalPdfPath(OutputPdf(v))
        /\ pc[v] \in {"composed", "footer_found", "rasterized", "stamped",
                      "saved", "footer_removed"}
           => /\ Exists(TempName(v))
              /\ disk[TempName(v)].page.height = FeetToPoints(v.height_ft)
              /\ disk[TempName(v)].page.width =
                     Columns(v) * ExtendedTileWidth + (Columns(v) - 1) * X(spacing_points)
        /\ SavedFinal(v)
           => Exists(FinalName(v)) /\ disk[FinalName(v)].page = loc[v].doc

C6_Witness ==
    \E u, v \in DOMAIN pc :
        /\ u # v
        /\ pc[u] = "returned" /\ pc[v] = "returned"
        /\ Exists(FinalName(u)) /\ Exists(FinalName(v))
        /\ "Error: No such file" \in out[u]

\* the name is stamped once per footer, at the given percentage of the footer
\* height above the bottom edge of the page
NameStamped(page, y_percent) ==
    /\ Cardinality(page.texts) = Cardinality(page.footers)
    /\ \A r \in page.footers :
          \E t \in page.texts :
              /\ t.x = r.x0 + ((r.x1 - r.x0) * 77) \div 100
              /\ t.y = RatSub(RatInt(page.height),
                              RatMul(RatSub(r.y1, r.y0), Rat(y_percent, 100)))

(* C7 as stated: in every final PDF, single or double blade, the name is at
   x = columnLeft + footerWidth * 0.77, y = pageHeight - footerHeight * 0.54
   for every column. *)
C7_Original ==
    \A v \in DOMAIN pc :
        script = "LemonPark" /\ Exists(FinalName(v))
        => NameStamped(disk[FinalName(v)].page, 54)

(* C7 amended: x = columnLeft + footerWidth * 0.77 in every layout;
   y = pageHeight - footerHeight * 0.54 in a single-blade PDF and
   y = pageHeight - footerHeight * 0.53 in a double-blade PDF. *)
C7_NamePosition ==
    \A v \in DOMAIN pc :
        script = "LemonPark" /\ Exists(FinalName(v))
        => NameStamped(disk[FinalName(v)].page, IF v.double_blade THEN 53 ELSE 54)

C7_Witness ==
    \E v \in DOMAIN pc :
        /\ v.double_blade
        /\ pc[v] = "saved"
        /\ Cardinality(disk[FinalName(v)].page.texts) = 2

(* C8: degenerate tile height.  When the scaled tile height truncates to 0
   no call gets past the resize: the tile count is never computed, nothing
   is divided by zero, no tile is drawn and no PDF is written; the call ends
   with the resize's "height and width must be > 0" error. *)
C8_DegenerateTileHeight ==
    TruncatedHeightIsZero
    => /\ Pdfs = {}
       /\ \A v \in DOMAIN pc :
             /\ pc[v] \in {"idle", "start", "enhanced", "returned", "crashed"}
             /\ loc[v].tile_count = 0
             /\ "Error: integer division or modulo by zero" \notin out[v]
             /\ pc[v] \in {"returned", "crashed"}
                => out[v] \in {{"Error: height and width must be > 0"},
                               {"ValueError: height and width must be > 0"}}

C8_Witness ==
    /\ TruncatedHeightIsZero
    /\ script = "LemonPark"
    /\ \E v \in DOMAIN pc :
          pc[v] = "returned" /\ "Error: height and width must be > 0" \in out[v]

(* C9 as stated: a call that ends with an error ends with its temp_ PDF
   still on disk, and a temp_ PDF that was composed is gone only if the
   final PDF is there. *)
C9_Original ==
    script = "LemonPark"
    => \A v \in DOMAIN pc :
           /\ pc[v] = "returned" /\ Failed(v) => Exists(TempName(v))
           /\ "Temporary PDF saved" \in out[v] /\ ~Exists(TempName(v))
              => Exists(FinalName(v))

Rank ==
    [idle |-> 0, start |-> 1, enhanced |-> 2, resized |-> 3, counted |-> 4,
     composed |-> 5, footer_found |-> 6, rasterized |-> 7, stamped |-> 8,
     saved |-> 9, footer_removed |-> 10, cleanup |-> 11, cleanup2 |-> 12,
     returned |-> 13]

C9_Step ==
    script = "LemonPark"
    => \A v \in DOMAIN pc :
           /\ Rank[pc'[v]] >= Rank[pc[v]]
           /\ Exists(TempName(v)) /\ TempName(v) \notin DOMAIN disk'
              => FinalName(v) \in DOMAIN disk /\ FinalName(v) \in DOMAIN disk'

C9_Ended ==
    script = "LemonPark"
    => \A v \in DOMAIN pc :
           pc[v] = "returned" /\ Failed(v)
           => (Exists(TempName(v)) <=> "Temporary PDF saved" \in out[v])

(* C9 amended: a call only moves forward and repeats no step; its temp_ PDF
   is removed only in a step that finds and leaves the final PDF on disk;
   a call that ends with an error after its temp_ PDF was written ends with
   the temp_ PDF on disk, and a call that ends with an error before that
   (undecodable image, degenerate tile height) ends with no temp_ PDF. *)
C9_ForwardOnly == [][C9_Step]_vars /\ []C9_Ended

C9_Witness ==
    /\ script = "LemonPark"
    /\ \E v \in DOMAIN pc :
          /\ pc[v] = "returned"
          /\ Failed(v)
          /\ Exists(TempName(v))
          /\ ~Exists(FinalName(v))

(* C10: alignment of the two stages.  In every final PDF, for every width_ft
   and spacing and both blade modes: each footer is as wide as the tiles
   create_pdf drew, the footers' left edges are the x-offsets of the tile
   columns, one footer per column, and each footer spans
   y0 = pageHeight - footerHeight to y1 = pageHeight with
   footerHeight = bitmapHeight * footerWidth / bitmapWidth. *)
C10_FooterAlignment ==
    \A v \in DOMAIN pc :
        script = "LemonPark" /\ Exists(FinalName(v))
        => LET page == disk[FinalName(v)].page
               bitmap == <<3 * footer_page[1], 3 * footer_page[2]>>
           IN  /\ Cardinality(page.footers) = Columns(v)
               /\ {r.x0 : r \in page.footers} = {t[1] : t \in page.tiles}
               /\ \A r \in page.footers :
                     /\ r.x1 - r.x0 = page.tile_width
                     /\ r.x1 - r.x0 = X(width_ft * 12 * 72)
                     /\ r.y1 = RatInt(page.height)
                     /\ r.y0 = RatSub(RatInt(page.height),
                                      Rat(bitmap[2] * (r.x1 - r.x0), bitmap[1] * XUnit))

C10_Witness ==
    \E v \in DOMAIN pc :
        /\ v.double_blade
        /\ pc[v] = "saved"
        /\ width_ft # DefaultWidthFt
        /\ spacing_points # DefaultSpacing
        /\ footer_page[1] # footer_page[2]
        /\ Cardinality(disk[FinalName(v)].page.footers) = 2

====
